---- MODULE Spec2Model ----
(***************************************************************************)
(* Virtual titration simulator (src/main.py): the Streamlit script main()  *)
(* and the pure function calculate_ph.                                     *)
(*                                                                         *)
(* Number representation.  The program computes with binary64 floats.     *)
(* Here a volume is an integer count of half-microlitres (UnitsPerMl units *)
(* per mL), a concentration is an integer count of tenths of mol/L, an     *)
(* amount of substance is therefore a count of 5e-8 mmol, and a pH is an   *)
(* integer count of thousandths (7000 is pH 7.0).  Sums and differences    *)
(* are exact; log10 is evaluated in fixed point (error below 0.002 pH).    *)
(* The rounding error that binary64 accumulates in "volume_naoh += 0.1"    *)
(* is far below one unit.  It decides the outcome only where the exact     *)
(* remaining_acid is 0; there the loop's sample is computed from the       *)
(* binary64 values (volume_f, RemainingFloat), elsewhere from the exact    *)
(* ones.                                                                   *)
(*                                                                         *)
(* Script runs.  Streamlit executes main() from the top on every widget    *)
(* event.  An event that arrives while a run is still going stops that run *)
(* at its next element call or access to st.session_state, before that     *)
(* call or access takes effect, and starts the next run; the session state *)
(* keeps whatever the stopped run had written, and a button is True only   *)
(* in the run that its press started.  pc is the position of the current   *)
(* run: the statement it is about to execute.                              *)
(*                                                                         *)
(* The next run starts at once, in a thread of its own, while the stopped  *)
(* run goes on to its next element call or session-state access.  What it  *)
(* executes on the way (the data.append of line 136, the beeps of lines    *)
(* 165-239 and 246-318) takes effect while the next run is going: stale    *)
(* holds these tails until they do.                                        *)
(***************************************************************************)
EXTENDS Integers, Sequences, FiniteSets, TLC

VARIABLES
    volume_naoh,          \* st.session_state.volume_naoh
    volume_f,             \* the binary64 value that volume_naoh holds
    is_running,           \* st.session_state.is_running
    data,                 \* st.session_state.data: sequence of [vol, ph]
    has_reached_neutral,  \* st.session_state.has_reached_neutral
    initial_vinegar,      \* value of the sidebar number_input
    current_ph,           \* local current_ph of the running loop iteration
    pc,                   \* position of the current script run
    neutral_msgs,         \* st.write("neutral point reached") calls since the last reset
    beep_seqs,            \* completion beep sequences played since the last reset
    event,                \* widget event that started the current script run
    pre,                  \* is_running, has_reached_neutral, data == [] when that event arrived
    changes,              \* number of edits of the number_input after the experiment began
    torn,                 \* number of runs stopped between the writes of one block or before a tail
    stale,                \* tails that stopped runs have still to execute
    probe                 \* a direct call of calculate_ph (SpecPh only)

vars == <<volume_naoh, volume_f, is_running, data, has_reached_neutral,
          initial_vinegar, current_ph, pc, neutral_msgs, beep_seqs, event, pre,
          changes, torn, stale, probe>>

sessionVars ==
    <<volume_naoh, volume_f, is_running, data, has_reached_neutral>>

----------------------------------------------------------------------------
(* Bounds *)

\* loop iterations since the last reset, and samples in the history
MaxSteps == 21

\* edits of the number_input after the experiment has begun, plus runs
\* stopped between the writes of one block or with a tail still to execute
\* (changes + torn)
MaxDisturbances == 1

----------------------------------------------------------------------------
(* Units and program constants *)

UnitsPerMl == 2 * 10^6

Ml100(h) == h * (UnitsPerMl \div 100)

\* volume_naoh += 0.1
Step == UnitsPerMl \div 10

\* initial_conc_vinegar=0.8, in tenths of mol/L
InitialConcVinegar == 8

\* "volume_naoh * 0.1": 0.1 M NaOH, in tenths of mol/L
NaohConc == 1

\* 1000 * log10(1.8e-5), Ka of acetic acid
Log10KaMilli == -4745

\* 1000 * log10(1e-14)
Log10KwMilli == -14000

\* 1000 * log10(5e-8): one unit of amount is 5e-8 mmol
Log10UnitMilli == -7301

\* return 7.0
NeutralPh == 7000

\* current_ph > 6.5
NeutralThreshold == 6500

\* current_ph < 7.5
NeutralUpper == 7500

\* np.log10(0) is -inf
NegInf == -(10^9)

PosInf == 10^9

\* value=st.session_state.initial_vinegar, 50.0 mL
DefaultVinegar == Ml100(5000)

\* values of the number_input: its default and three typed ones
\* (0.11 mL, 0.15 mL, 0.25 mL)
InitialVinegars == {DefaultVinegar, Ml100(11), Ml100(15), Ml100(25)}

----------------------------------------------------------------------------
(* calculate_ph *)

RECURSIVE FloorLog2(_)
FloorLog2(x) == IF x < 2 THEN 0 ELSE 1 + FloorLog2(x \div 2)

\* x scaled into [2^14, 2^15)
Mantissa(x) ==
    LET e == FloorLog2(x)
    IN  IF e <= 14 THEN x * 2^(14 - e) ELSE x \div 2^(e - 14)

\* n fractional bits of log2(y / 2^14) by repeated squaring
RECURSIVE FracBits(_, _)
FracBits(y, n) ==
    IF n = 0 THEN 0
    ELSE LET y2 == (y * y) \div 2^14
         IN  IF y2 >= 2^15 THEN 2^(n - 1) + FracBits(y2 \div 2, n - 1)
                           ELSE FracBits(y2, n - 1)

\* 4096 * log2(x)
Log2Fix(x) == FloorLog2(x) * 2^12 + FracBits(Mantissa(x), 12)

\* 1000 * np.log10(x) for an integer x; log10(2) = 1233/4096
Log10Milli(x) ==
    IF x <= 0 THEN NegInf ELSE (Log2Fix(x) * 1233) \div 16777

moles_acid(initial_volume_vinegar, initial_conc_vinegar) ==
    initial_volume_vinegar * initial_conc_vinegar

moles_base(vol) == vol * NaohConc

remaining_acid(vol, initial_volume_vinegar, initial_conc_vinegar) ==
    moles_acid(initial_volume_vinegar, initial_conc_vinegar) - moles_base(vol)

\* -np.log10(np.sqrt(remaining_acid * 1.8e-5))
AcidPh(remaining) ==
    LET lg == Log10Milli(remaining)
    IN  IF lg = NegInf THEN PosInf
        ELSE (0 - (lg + Log10UnitMilli + Log10KaMilli)) \div 2

\* oh_conc = -remaining_acid; -np.log10(1e-14 / oh_conc)
BasePh(remaining) ==
    LET oh_conc == 0 - remaining
        lg == Log10Milli(oh_conc)
    IN  IF lg = NegInf THEN NegInf
        ELSE 0 - (Log10KwMilli - (lg + Log10UnitMilli))

Branch(remaining) ==
    IF remaining > 0 THEN "acid"
    ELSE IF remaining < 0 THEN "base"
    ELSE "neutral"

\* first branch taken on remaining_acid >= 0
calculate_ph_ge(vol, initial_volume_vinegar, initial_conc_vinegar) ==
    LET remaining == remaining_acid(vol, initial_volume_vinegar, initial_conc_vinegar)
    IN  IF remaining >= 0 THEN AcidPh(remaining)
        ELSE IF remaining < 0 THEN BasePh(remaining)
        ELSE NeutralPh

calculate_ph(vol, initial_volume_vinegar, initial_conc_vinegar) ==
    LET remaining == remaining_acid(vol, initial_volume_vinegar, initial_conc_vinegar)
    IN  IF remaining > 0 THEN AcidPh(remaining)
        ELSE IF remaining < 0 THEN BasePh(remaining)
        ELSE NeutralPh

\* calculate_ph has no raise statement and validates none of its arguments
Raises(vol, initial_volume_vinegar, initial_conc_vinegar) == FALSE

----------------------------------------------------------------------------
(* binary64 evaluation of remaining_acid inside the loop.                  *)
(* An unsigned integer is a sequence of limbs of LimbBits bits, least      *)
(* significant first, without leading zero limbs; a float is               *)
(* [n |-> limbs, e |-> exponent] with value n * 2^e.  Results are rounded  *)
(* to 53 bits, ties to even.                                               *)

LimbBits == 15
Radix == 2^LimbBits

RECURSIVE LOfInt(_)
LOfInt(k) == IF k = 0 THEN <<>> ELSE <<k % Radix>> \o LOfInt(k \div Radix)

RECURSIVE LStrip(_)
LStrip(a) ==
    IF a = <<>> THEN <<>>
    ELSE IF a[Len(a)] = 0 THEN LStrip(SubSeq(a, 1, Len(a) - 1))
    ELSE a

LimbAt(a, i) == IF i <= Len(a) THEN a[i] ELSE 0

RECURSIVE LAddFrom(_, _, _, _, _)
LAddFrom(a, b, i, c, len) ==
    IF i > len THEN (IF c = 0 THEN <<>> ELSE <<c>>)
    ELSE LET t == LimbAt(a, i) + LimbAt(b, i) + c
         IN  <<t % Radix>> \o LAddFrom(a, b, i + 1, t \div Radix, len)

LAdd(a, b) ==
    LAddFrom(a, b, 1, 0, IF Len(a) > Len(b) THEN Len(a) ELSE Len(b))

\* a - b for a >= b
RECURSIVE LSubFrom(_, _, _, _)
LSubFrom(a, b, i, borrow) ==
    IF i > Len(a) THEN <<>>
    ELSE LET t == LimbAt(a, i) - LimbAt(b, i) - borrow
         IN  <<t % Radix>> \o LSubFrom(a, b, i + 1, IF t < 0 THEN 1 ELSE 0)

LSub(a, b) == LStrip(LSubFrom(a, b, 1, 0))

RECURSIVE LLessFrom(_, _, _)
LLessFrom(a, b, i) ==
    IF i = 0 THEN FALSE
    ELSE IF a[i] # b[i] THEN a[i] < b[i]
    ELSE LLessFrom(a, b, i - 1)

LLess(a, b) ==
    IF Len(a) # Len(b) THEN Len(a) < Len(b) ELSE LLessFrom(a, b, Len(a))

\* a * m for 0 < m < Radix
RECURSIVE LScaleFrom(_, _, _, _)
LScaleFrom(a, m, i, c) ==
    IF i > Len(a) THEN (IF c = 0 THEN <<>> ELSE <<c>>)
    ELSE LET t == a[i] * m + c
         IN  <<t % Radix>> \o LScaleFrom(a, m, i + 1, t \div Radix)

LScale(a, m) == LScaleFrom(a, m, 1, 0)

LShl(a, k) ==
    IF a = <<>> THEN <<>>
    ELSE [i \in 1..(k \div LimbBits) |-> 0] \o LScale(a, 2^(k % LimbBits))

LShr(a, k) ==
    LET w == k \div LimbBits
        r == k % LimbBits
    IN  IF w >= Len(a) THEN <<>>
        ELSE LStrip([i \in 1..(Len(a) - w) |->
                        (a[i + w] \div 2^r)
                        + (LimbAt(a, i + w + 1) % 2^r) * 2^(LimbBits - r)])

RECURSIVE LMul(_, _)
LMul(a, b) ==
    IF a = <<>> \/ b = <<>> THEN <<>>
    ELSE LET rest == LMul(a, Tail(b))
             high == IF rest = <<>> THEN <<>> ELSE <<0>> \o rest
         IN  IF Head(b) = 0 THEN high ELSE LAdd(LScale(a, Head(b)), high)

LBitLen(a) ==
    IF a = <<>> THEN 0
    ELSE LimbBits * (Len(a) - 1) + FloorLog2(a[Len(a)]) + 1

Round53(n, e) ==
    IF LBitLen(n) <= 53 THEN [n |-> n, e |-> e]
    ELSE LET d == LBitLen(n) - 53
             q == LShr(n, d)
             low == LSub(n, LShl(q, d))
             half == LShl(<<1>>, d - 1)
             up == LLess(half, low) \/ (low = half /\ q[1] % 2 = 1)
             q2 == IF up THEN LAdd(q, <<1>>) ELSE q
         IN  IF LBitLen(q2) = 54
             THEN [n |-> LShr(q2, 1), e |-> e + d + 1]
             ELSE [n |-> q2, e |-> e + d]

\* j more bits of the quotient q of a long division, the remainder being r
RECURSIVE DivStep(_, _, _, _)
DivStep(q, r, den, j) ==
    IF j = 0 THEN [q |-> q, r |-> r]
    ELSE IF 2 * r >= den THEN DivStep(2 * q + 1, 2 * r - den, den, j - 1)
    ELSE DivStep(2 * q, 2 * r, den, j - 1)

\* the first k limbs of the fraction r / den and the remainder left
RECURSIVE FracLimbs(_, _, _)
FracLimbs(r, den, k) ==
    IF k = 0 THEN [n |-> <<>>, r |-> r]
    ELSE LET s == DivStep(0, r, den, LimbBits)
             rest == FracLimbs(s.r, den, k - 1)
         IN  [n |-> rest.n \o <<s.q>>, r |-> rest.r]

FracLimbCount == 5

\* the binary64 nearest to num / den: a decimal literal or a typed number
FlDec(num, den) ==
    LET f == FracLimbs(num % den, den, FracLimbCount)
        sticky == IF f.r = 0 THEN <<>> ELSE <<1>>
        n == LStrip(f.n \o LOfInt(num \div den))
    IN  Round53(LAdd(LScale(n, 2), sticky), 0 - (FracLimbCount * LimbBits + 1))

FlZero == [n |-> <<>>, e |-> 0]

FlAdd(x, y) ==
    IF x.n = <<>> THEN y
    ELSE IF y.n = <<>> THEN x
    ELSE LET e == IF x.e < y.e THEN x.e ELSE y.e
         IN  Round53(LAdd(LShl(x.n, x.e - e), LShl(y.n, y.e - e)), e)

FlMul(x, y) == Round53(LMul(x.n, y.n), x.e + y.e)

\* x - y as [s |-> sign, n |-> limbs, e |-> exponent]
FlSub(x, y) ==
    LET e == IF x.e < y.e THEN x.e ELSE y.e
        a == LShl(x.n, x.e - e)
        b == LShl(y.n, y.e - e)
    IN  IF a = b THEN [s |-> 0, n |-> <<>>, e |-> 0]
        ELSE IF LLess(b, a)
             THEN [s |-> 1] @@ Round53(LSub(a, b), e)
             ELSE [s |-> 0 - 1] @@ Round53(LSub(b, a), e)

\* remaining_acid of lines 14-20 in binary64, for the float volume f
RemainingFloat(f, vinegar) ==
    FlSub(FlMul(FlDec(vinegar, UnitsPerMl), FlDec(InitialConcVinegar, 10)),
          FlMul(f, FlDec(NaohConc, 10)))

\* 1000 * log10(n * 2^e) from the 30 leading bits of n
FlLog10Milli(x) ==
    LET drop == IF LBitLen(x.n) > 30 THEN LBitLen(x.n) - 30 ELSE 0
        t == LShr(x.n, drop)
        top == LimbAt(t, 1) + Radix * LimbAt(t, 2)
    IN  ((Log2Fix(top) + (drop + x.e) * 2^12) * 1233) \div 16777

\* calculate_ph for a float remaining_acid
FloatPh(rem) ==
    IF rem.s > 0 THEN (0 - (FlLog10Milli(rem) + Log10KaMilli)) \div 2
    ELSE IF rem.s < 0 THEN 0 - (Log10KwMilli - FlLog10Milli(rem))
    ELSE NeutralPh

\* calculate_ph(st.session_state.volume_naoh, initial_vinegar) in the loop,
\* the volume being vol units and held as the float f.
\* Where the exact remaining_acid is not 0 the float one has its sign and,
\* to the precision of a milli-pH, its logarithm; where it is 0 the
\* rounding of the accumulated volume decides the branch.
loop_ph(vol, f, vinegar) ==
    IF remaining_acid(vol, vinegar, InitialConcVinegar) # 0
    THEN calculate_ph(vol, vinegar, InitialConcVinegar)
    ELSE FloatPh(RemainingFloat(f, vinegar))

----------------------------------------------------------------------------
(* main(): one script run *)

\* Positions of a script run.  Each names the statement the run is about to
\* execute: "top" lines 75-119, "reset_running" line 123, "reset_data" line
\* 124, "reset_neutral" line 125, "advance" lines 128-130, "sample" lines
\* 133-137 (the reads), "append" the call of data.append (line 136),
\* "chart" lines 142-148, "status" lines 151-159, "check" line 162,
\* "latch1" line 163, "stop1" line 164, "beep1" lines 165-239, "write1" line
\* 240, "latch2" line 244, "stop2" line 245, "beep2" lines 246-318, "write2"
\* line 321, "tone" lines 324-331; "done" is the end of the script.
\*
\* A pending widget event stops the running script at every element call
\* and at every access to st.session_state, before the call or access takes
\* effect.
YieldPoints == {"top", "reset_running", "reset_data", "reset_neutral",
                "advance", "sample", "chart", "status", "latch1", "stop1",
                "write1", "latch2", "stop2", "write2"}

\* Positions past the last access of a statement, with an effect still to
\* come before the next element call or access: a run that an event finds
\* there is not stopped before that effect.  ("check" and "tone" have no
\* effect on the state; a run found there ends at line 163 or 129.)
TailPoints == {"append", "beep1", "beep2"}

\* the positions at which the model lets a widget event arrive
Interruptible == YieldPoints \cup TailPoints \cup {"done"}

\* positions between the writes of one block (the reset block, and the
\* increment and the append of one step)
TornPoints == {"reset_running", "reset_data", "reset_neutral", "sample"}

\* the sample that the running iteration has built (lines 136-139)
Sample == [vol |-> volume_naoh, f |-> volume_f, ph |-> current_ph]

\* what a run stopped at a tail point has still to execute
PendingTail ==
    IF pc = "append"
    THEN [kind |-> "append", sample |-> Sample]
    ELSE [kind |-> "beeps", sample |-> [vol |-> 0, f |-> FlZero, ph |-> 0]]

\* the sequence s without its i-th element
Without(s, i) == SubSeq(s, 1, i - 1) \o SubSeq(s, i + 1, Len(s))

\* the pending tails that are not appends
NoAppends(s) == SelectSeq(s, LAMBDA t : t.kind # "append")

Snapshot == [running |-> is_running, neutral |-> has_reached_neutral,
             empty |-> data = <<>>]

NoProbe == [v1 |-> 0, v2 |-> 0, a |-> 0, c |-> 0, phase |-> "off",
            raised |-> FALSE, out1 |-> 0, out2 |-> 0]

\* if st.session_state.is_running and not st.session_state.has_reached_neutral
LoopGuard(running, neutral) == running /\ ~neutral

\* start_stop = st.button(...): True in the run started by a press of it
start_stop == event = "start_stop"

\* reset = st.button(...): True in the run started by a press of it
reset == event = "reset"

\* A widget event: the running script, if any, is stopped where it is and a
\* new run starts at the top with the widget values of the event.  Lines
\* 75-113 change no session field.  torn counts the runs stopped between the
\* writes of one block or with a tail still to execute; such a tail joins
\* stale.
StartRun(ev, vinegar) ==
    /\ pc \in Interruptible
    /\ pc \in TornPoints \cup TailPoints => changes + torn < MaxDisturbances
    /\ torn' = (IF pc \in TornPoints \cup TailPoints THEN torn + 1 ELSE torn)
    /\ stale' = (IF pc \in TailPoints THEN Append(stale, PendingTail) ELSE stale)
    /\ event' = ev
    /\ initial_vinegar' = vinegar
    /\ pc' = "top"
    /\ pre' = Snapshot
    /\ UNCHANGED <<sessionVars, current_ph, neutral_msgs, beep_seqs, probe>>

Init ==
    /\ volume_naoh = 0
    /\ volume_f = FlZero
    /\ is_running = FALSE
    /\ data = <<>>
    /\ has_reached_neutral = FALSE
    /\ initial_vinegar = DefaultVinegar
    /\ current_ph = 0
    /\ pc = "done"
    /\ neutral_msgs = 0
    /\ beep_seqs = 0
    /\ event = "load"
    /\ pre = [running |-> FALSE, neutral |-> FALSE, empty |-> TRUE]
    /\ changes = 0
    /\ torn = 0
    /\ stale = <<>>
    /\ probe = NoProbe

\* the "open/close stopcock" button
PressStartStop ==
    /\ StartRun("start_stop", initial_vinegar)
    /\ UNCHANGED changes

\* the "reset experiment" button
PressReset ==
    /\ StartRun("reset", initial_vinegar)
    /\ UNCHANGED changes

\* the experiment has not begun: nothing recorded, stopcock closed, no run
\* going
Fresh ==
    /\ pc = "done"
    /\ volume_naoh = 0
    /\ data = <<>>
    /\ ~is_running
    /\ ~has_reached_neutral
    /\ stale = <<>>

\* a new value typed into the number_input; changes counts the edits made
\* once the experiment has begun
ChangeVinegar ==
    /\ ~Fresh =>
          changes + torn + (IF pc \in TornPoints \cup TailPoints THEN 1 ELSE 0)
             < MaxDisturbances
    /\ \E v \in InitialVinegars \ {initial_vinegar} : StartRun("input", v)
    /\ changes' = (IF Fresh THEN changes ELSE changes + 1)

\* a rerun with no widget changed
Rerun ==
    /\ StartRun("rerun", initial_vinegar)
    /\ UNCHANGED changes

\* Lines 118-121 and 128 in a run without a reset press: the toggle (one
\* write, line 119) and the guard of the loop.  The run can be stopped
\* before the write (pc = "top") and after it (pc = "advance" or "done").
HandleButtons ==
    /\ pc = "top"
    /\ ~reset
    /\ LET run1 == IF start_stop THEN ~is_running ELSE is_running
       IN  /\ is_running' = run1
           /\ pc' = IF LoopGuard(run1, has_reached_neutral)
                    THEN "advance" ELSE "done"
    /\ UNCHANGED <<volume_naoh, volume_f, data, has_reached_neutral,
                   initial_vinegar, current_ph, neutral_msgs, beep_seqs,
                   event, pre, changes, torn, stale, probe>>

\* line 122: st.session_state.volume_naoh = 0.0
ResetVolume ==
    /\ pc = "top"
    /\ reset
    /\ volume_naoh' = 0
    /\ volume_f' = FlZero
    /\ pc' = "reset_running"
    /\ UNCHANGED <<is_running, data, has_reached_neutral, initial_vinegar,
                   current_ph, neutral_msgs, beep_seqs, event, pre, changes,
                   torn, stale, probe>>

\* line 123: st.session_state.is_running = False
ResetRunning ==
    /\ pc = "reset_running"
    /\ is_running' = FALSE
    /\ pc' = "reset_data"
    /\ UNCHANGED <<volume_naoh, volume_f, data, has_reached_neutral,
                   initial_vinegar, current_ph, neutral_msgs, beep_seqs,
                   event, pre, changes, torn, stale, probe>>

\* line 124: st.session_state.data = [].  The list that a stopped run is
\* about to append to is no longer the history: its append is lost.
ResetData ==
    /\ pc = "reset_data"
    /\ data' = <<>>
    /\ stale' = NoAppends(stale)
    /\ pc' = "reset_neutral"
    /\ UNCHANGED <<volume_naoh, volume_f, is_running, has_reached_neutral,
                   initial_vinegar, current_ph, neutral_msgs, beep_seqs,
                   event, pre, changes, torn, probe>>

\* line 125: st.session_state.has_reached_neutral = False, then the guard
\* of line 128, which is_running = False fails
ResetNeutral ==
    /\ pc = "reset_neutral"
    /\ has_reached_neutral' = FALSE
    /\ neutral_msgs' = 0
    /\ beep_seqs' = 0
    /\ pc' = IF LoopGuard(is_running, FALSE) THEN "advance" ELSE "done"
    /\ UNCHANGED <<volume_naoh, volume_f, is_running, data, initial_vinegar,
                   current_ph, event, pre, changes, torn, stale, probe>>

\* lines 129-130: while is_running: volume_naoh += 0.1
Advance ==
    /\ pc = "advance"
    /\ is_running
    /\ volume_naoh < MaxSteps * Step
    /\ Len(data) < MaxSteps
    /\ volume_naoh' = volume_naoh + Step
    /\ volume_f' = FlAdd(volume_f, FlDec(1, 10))
    /\ pc' = "sample"
    /\ UNCHANGED <<is_running, data, has_reached_neutral, initial_vinegar,
                   current_ph, neutral_msgs, beep_seqs, event, pre, changes,
                   torn, stale, probe>>

\* lines 133-137: current_ph = calculate_ph(volume_naoh, initial_vinegar),
\* then the reads of data and volume_naoh for the append
ReadSample ==
    /\ pc = "sample"
    /\ current_ph' = loop_ph(volume_naoh, volume_f, initial_vinegar)
    /\ pc' = "append"
    /\ UNCHANGED <<sessionVars, initial_vinegar, neutral_msgs, beep_seqs,
                   event, pre, changes, torn, stale, probe>>

\* the history replaced by the new sample instead of extended by it
AppendSampleOverwrite ==
    /\ pc = "append"
    /\ data' = <<Sample>>
    /\ pc' = "chart"
    /\ UNCHANGED <<volume_naoh, volume_f, is_running, has_reached_neutral,
                   initial_vinegar, current_ph, neutral_msgs, beep_seqs,
                   event, pre, changes, torn, stale, probe>>

\* lines 136-139: data.append({volume_naoh, current_ph}), in place and with
\* no access to st.session_state
AppendSample ==
    /\ pc = "append"
    /\ data' = Append(data, Sample)
    /\ pc' = "chart"
    /\ UNCHANGED <<volume_naoh, volume_f, is_running, has_reached_neutral,
                   initial_vinegar, current_ph, neutral_msgs, beep_seqs,
                   event, pre, changes, torn, stale, probe>>

\* the data.append of a stopped run, while a later run is going
StaleAppend ==
    /\ \E i \in 1..Len(stale) :
          /\ stale[i].kind = "append"
          /\ data' = Append(data, stale[i].sample)
          /\ stale' = Without(stale, i)
    /\ UNCHANGED <<volume_naoh, volume_f, is_running, has_reached_neutral,
                   initial_vinegar, current_ph, pc, neutral_msgs, beep_seqs,
                   event, pre, changes, torn, probe>>

\* the 25 beeps of a stopped run, while a later run is going
StaleBeeps ==
    /\ \E i \in 1..Len(stale) :
          /\ stale[i].kind = "beeps"
          /\ stale' = Without(stale, i)
    /\ beep_seqs' = beep_seqs + 1
    /\ UNCHANGED <<sessionVars, initial_vinegar, current_ph, pc,
                   neutral_msgs, event, pre, changes, torn, probe>>

\* lines 142-148: the DataFrame of the history, chart_placeholder.pyplot(fig)
UpdateChart ==
    /\ pc = "chart"
    /\ pc' = "status"
    /\ UNCHANGED <<sessionVars, initial_vinegar, current_ph, neutral_msgs,
                   beep_seqs, event, pre, changes, torn, stale, probe>>

\* lines 151-159: status_placeholder.markdown(status_html)
UpdateStatus ==
    /\ pc = "status"
    /\ pc' = "check"
    /\ UNCHANGED <<sessionVars, initial_vinegar, current_ph, neutral_msgs,
                   beep_seqs, event, pre, changes, torn, stale, probe>>

\* line 162: if current_ph > 6.5
CheckNeutral ==
    /\ pc = "check"
    /\ pc' = IF current_ph > NeutralThreshold THEN "latch1" ELSE "tone"
    /\ UNCHANGED <<sessionVars, initial_vinegar, current_ph, neutral_msgs,
                   beep_seqs, event, pre, changes, torn, stale, probe>>

\* line 163: st.session_state.has_reached_neutral = True
SetNeutral ==
    /\ pc = "latch1"
    /\ has_reached_neutral' = TRUE
    /\ pc' = "stop1"
    /\ UNCHANGED <<volume_naoh, volume_f, is_running, data, initial_vinegar,
                   current_ph, neutral_msgs, beep_seqs, event, pre, changes,
                   torn, stale, probe>>

\* line 164: st.session_state.is_running = False
StopRunning ==
    /\ pc = "stop1"
    /\ is_running' = FALSE
    /\ pc' = "beep1"
    /\ UNCHANGED <<volume_naoh, volume_f, data, has_reached_neutral,
                   initial_vinegar, current_ph, neutral_msgs, beep_seqs,
                   event, pre, changes, torn, stale, probe>>

\* lines 165-239: 25 x play_sound(500), time.sleep
PlayBeeps ==
    /\ pc = "beep1"
    /\ beep_seqs' = beep_seqs + 1
    /\ pc' = "write1"
    /\ UNCHANGED <<sessionVars, initial_vinegar, current_ph, neutral_msgs,
                   event, pre, changes, torn, stale, probe>>

\* lines 240-243: st.write(...), then
\* if current_ph > 6.5 and current_ph < 7.5
WriteNeutral ==
    /\ pc = "write1"
    /\ neutral_msgs' = neutral_msgs + 1
    /\ pc' = IF current_ph > NeutralThreshold /\ current_ph < NeutralUpper
             THEN "latch2" ELSE "tone"
    /\ UNCHANGED <<sessionVars, initial_vinegar, current_ph, beep_seqs,
                   event, pre, changes, torn, stale, probe>>

\* line 244: st.session_state.has_reached_neutral = True
SetNeutralAgain ==
    /\ pc = "latch2"
    /\ has_reached_neutral' = TRUE
    /\ pc' = "stop2"
    /\ UNCHANGED <<volume_naoh, volume_f, is_running, data, initial_vinegar,
                   current_ph, neutral_msgs, beep_seqs, event, pre, changes,
                   torn, stale, probe>>

\* line 245: st.session_state.is_running = False
StopRunningAgain ==
    /\ pc = "stop2"
    /\ is_running' = FALSE
    /\ pc' = "beep2"
    /\ UNCHANGED <<volume_naoh, volume_f, data, has_reached_neutral,
                   initial_vinegar, current_ph, neutral_msgs, beep_seqs,
                   event, pre, changes, torn, stale, probe>>

\* lines 246-318: 25 x play_sound(500), time.sleep
PlayBeepsAgain ==
    /\ pc = "beep2"
    /\ beep_seqs' = beep_seqs + 1
    /\ pc' = "write2"
    /\ UNCHANGED <<sessionVars, initial_vinegar, current_ph, neutral_msgs,
                   event, pre, changes, torn, stale, probe>>

\* line 321: the st.write(...) of the nested block
WriteNeutralAgain ==
    /\ pc = "write2"
    /\ neutral_msgs' = neutral_msgs + 1
    /\ pc' = "tone"
    /\ UNCHANGED <<sessionVars, initial_vinegar, current_ph, beep_seqs,
                   event, pre, changes, torn, stale, probe>>

\* lines 324-331: play_sound by pH, time.sleep(0.1); the run is then at the
\* while condition of line 129
PlayTone ==
    /\ pc = "tone"
    /\ pc' = IF is_running THEN "advance" ELSE "done"
    /\ UNCHANGED <<sessionVars, initial_vinegar, current_ph, neutral_msgs,
                   beep_seqs, event, pre, changes, torn, stale, probe>>

Next ==
    \/ PressStartStop
    \/ PressReset
    \/ ChangeVinegar
    \/ Rerun
    \/ HandleButtons
    \/ ResetVolume
    \/ ResetRunning
    \/ ResetData
    \/ ResetNeutral
    \/ Advance
    \/ ReadSample
    \/ AppendSample
    \/ StaleAppend
    \/ StaleBeeps
    \/ UpdateChart
    \/ UpdateStatus
    \/ CheckNeutral
    \/ SetNeutral
    \/ StopRunning
    \/ PlayBeeps
    \/ WriteNeutral
    \/ SetNeutralAgain
    \/ StopRunningAgain
    \/ PlayBeepsAgain
    \/ WriteNeutralAgain
    \/ PlayTone

Spec == Init /\ [][Next]_vars

----------------------------------------------------------------------------
(* Direct calls of calculate_ph *)

\* titrant volumes: -0.1, 0, 0.1, 0.9 mL, one unit either side of 1.2 mL,
\* 1.3 mL, one unit either side of 400 mL, 450 mL
PhVolumes ==
    {0 - Step, 0, Step, 9 * Step, 12 * Step - 1, 12 * Step, 12 * Step + 1,
     13 * Step, Ml100(40000) - 1, Ml100(40000), Ml100(40000) + 1, Ml100(45000)}

\* analyte volumes: -0.11, 0, 0.11, 0.15, 50 mL
PhVinegars == {0 - Ml100(11), 0, Ml100(11), Ml100(15), DefaultVinegar}

\* concentrations: -0.8, 0, 0.8 mol/L
PhConcs == {0 - InitialConcVinegar, 0, InitialConcVinegar}

InitPh ==
    /\ volume_naoh = 0
    /\ volume_f = FlZero
    /\ is_running = FALSE
    /\ data = <<>>
    /\ has_reached_neutral = FALSE
    /\ initial_vinegar = DefaultVinegar
    /\ current_ph = 0
    /\ pc = "done"
    /\ neutral_msgs = 0
    /\ beep_seqs = 0
    /\ event = "load"
    /\ pre = [running |-> FALSE, neutral |-> FALSE, empty |-> TRUE]
    /\ changes = 0
    /\ torn = 0
    /\ stale = <<>>
    /\ probe \in [v1 : PhVolumes, v2 : PhVolumes, a : PhVinegars, c : PhConcs,
                  phase : {"in"}, raised : {FALSE}, out1 : {0}, out2 : {0}]

\* calculate_ph(v1, a, c) and calculate_ph(v2, a, c)
CallPh ==
    /\ probe.phase = "in"
    /\ probe' = [probe EXCEPT
                    !.phase = "out",
                    !.raised = Raises(probe.v1, probe.a, probe.c),
                    !.out1 = calculate_ph(probe.v1, probe.a, probe.c),
                    !.out2 = calculate_ph(probe.v2, probe.a, probe.c)]
    /\ UNCHANGED <<sessionVars, initial_vinegar, current_ph, pc,
                   neutral_msgs, beep_seqs, event, pre, changes, torn, stale>>

NextPh == CallPh

SpecPh == InitPh /\ [][NextPh]_vars

----------------------------------------------------------------------------
(* Properties of the script (Spec) *)

\* a step that executes lines 118-128 of a run without a reset press, or
\* line 122 of the run of a reset press
HandlesButtons == pc = "top" /\ pc' # "top"

\* the positions of a run inside the reset block, lines 121-125
ResetBlock == {"top", "reset_running", "reset_data", "reset_neutral"}

\* a step that executes one of the writes of the reset block
ResetStep == reset /\ pc \in ResetBlock /\ pc' \notin {"top", pc}

\* the states between two loop steps: a run starts, has ended, or is at the
\* while condition of line 129
BetweenSteps == pc \in {"top", "done", "advance"}

\* C1: the start/stop toggle leaves is_running and every other session
\* field unchanged when has_reached_neutral is true, and flips is_running
\* when has_reached_neutral is false.
C1_ToggleInertWhenLatched ==
    [][(HandlesButtons /\ start_stop) =>
          IF has_reached_neutral
          THEN UNCHANGED sessionVars
          ELSE is_running' = ~is_running]_vars

\* C2: once has_reached_neutral is true, every step other than a reset
\* keeps it true and leaves volume_naoh and data exactly as they were.
C2_LatchHolds ==
    [][(has_reached_neutral /\ ~ResetStep) =>
          /\ has_reached_neutral'
          /\ volume_naoh' = volume_naoh
          /\ data' = data]_vars

\* C3: a reset pressed in any state gives volume 0, is_running false,
\* has_reached_neutral false and an empty history as one transition: when
\* the run of the press is over (finished, or stopped by the next event)
\* the four fields are cleared; the run does not enter the loop and its
\* steps leave the analyte volume of the number_input unchanged.
C3_ResetClears ==
    /\ [][(reset /\ pc \in ResetBlock /\ pc' \in {"top", "done"}) =>
             /\ volume_naoh' = 0
             /\ ~is_running'
             /\ ~has_reached_neutral'
             /\ data' = <<>>]_vars
    /\ [][ResetStep =>
             /\ pc' \in ResetBlock \cup {"done"}
             /\ initial_vinegar' = initial_vinegar]_vars

\* C4: at the end of a script run, while has_reached_neutral is false
\* every recorded sample has pH <= 6.5, and while it is true the last
\* recorded sample is the only one with pH > 6.5.
C4_LatchAtFirstNeutralSample ==
    pc = "done" =>
        /\ ~has_reached_neutral =>
               \A k \in 1..Len(data) : data[k].ph <= NeutralThreshold
        /\ has_reached_neutral =>
               /\ Len(data) > 0
               /\ data[Len(data)].ph > NeutralThreshold
               /\ \A k \in 1..(Len(data) - 1) : data[k].ph <= NeutralThreshold

\* C5: between two loop steps the titrant volume is 0.1 mL times the
\* number of history entries and the k-th history entry carries the volume
\* k x 0.1 mL.
C5_VolumeMatchesHistory ==
    BetweenSteps =>
        /\ 10 * volume_naoh = Len(data) * UnitsPerMl
        /\ \A k \in 1..Len(data) : 10 * data[k].vol = k * UnitsPerMl

\* C6: between two resets the completion feedback is given exactly once:
\* between two loop steps, whenever the latch is set, one beep sequence has
\* been played and the message has been written at most once.
C6_FeedbackOnce ==
    (BetweenSteps /\ has_reached_neutral) =>
        (beep_seqs = 1 /\ neutral_msgs <= 1)

\* C7: between two loop steps is_running and has_reached_neutral are never
\* both true.
C7_FlagPair ==
    BetweenSteps => ~(is_running /\ has_reached_neutral)

IsPrefix(s, t) == Len(s) <= Len(t) /\ SubSeq(t, 1, Len(s)) = s

\* C11: every step other than the reset of the history leaves the recorded
\* samples unchanged and in order: the history before the step is a prefix
\* of the history after it.  The reset empties it.
C11_HistoryAppendOnly ==
    [][IF ResetStep /\ pc = "reset_data"
       THEN data' = <<>>
       ELSE IsPrefix(data, data')]_vars

\* a run was stopped after it had read the third sample (0.3 mL); the next
\* run recorded the fourth (0.4 mL) before the append of the stopped run
\* executed: the two samples recorded first are still the head of the history
C11_Witness ==
    /\ stale = <<>>
    /\ Len(data) = 4
    /\ 10 * data[1].vol = UnitsPerMl
    /\ 10 * data[2].vol = 2 * UnitsPerMl
    /\ 10 * data[3].vol = 4 * UnitsPerMl
    /\ 10 * data[4].vol = 3 * UnitsPerMl
    /\ 10 * volume_naoh = 4 * UnitsPerMl

\* C12: all samples recorded since the last reset were computed with one
\* and the same initial analyte volume.
C12_OneAnalytePerRun ==
    \E v \in InitialVinegars :
        \A k \in 1..Len(data) :
            data[k].ph = loop_ph(data[k].vol, data[k].f, v)

\* C13: a widget event takes effect only between loop steps, so the state
\* a script run starts from (or ends in) never holds a recorded sample with
\* pH > 6.5 whose latch update was skipped.
C13_StepAtomic ==
    BetweenSteps =>
        \A k \in 1..Len(data) :
            data[k].ph > NeutralThreshold => has_reached_neutral

\* C14: while is_running is false no step other than a reset changes
\* volume_naoh, data or has_reached_neutral; the start/stop toggle changes
\* is_running only; on a paused, unlatched experiment it re-enters the
\* loop, whose next step adds 0.1 mL to the paused volume and appends the
\* sample of that volume to the paused history.
C14_PauseKeepsProgress ==
    [][/\ (~is_running /\ ~ResetStep) =>
             UNCHANGED <<volume_naoh, data, has_reached_neutral>>
       /\ (HandlesButtons /\ start_stop) =>
             /\ UNCHANGED <<volume_naoh, data, has_reached_neutral>>
             /\ is_running' = ~is_running
       /\ (HandlesButtons /\ start_stop /\ ~is_running
                /\ ~has_reached_neutral) =>
             pc' = "advance"
       /\ (pc = "advance" /\ pc' = "sample") =>
             /\ 10 * volume_naoh' = 10 * volume_naoh + UnitsPerMl
             /\ data' = data
       /\ (pc = "append" /\ pc' = "chart") =>
             /\ volume_naoh' = volume_naoh
             /\ Len(data') = Len(data) + 1
             /\ IsPrefix(data, data')
             /\ data'[Len(data')].vol = volume_naoh]_vars

\* C15: a run started from an empty history and left running stops no
\* later than the first step at which titrant * 0.1 >= analyte * 0.8: when
\* the body of that step has finished, the latch is set and is_running is
\* False.
C15_StopsAtEquivalence ==
    ( /\ pc = "tone"
      /\ event = "start_stop"
      /\ pre.empty
      /\ ~pre.running
      /\ moles_base(volume_naoh)
            >= moles_acid(initial_vinegar, InitialConcVinegar) )
        => (has_reached_neutral /\ ~is_running)

----------------------------------------------------------------------------
(* Properties of calculate_ph (SpecPh) *)

ValidInput(vol, vinegar, conc) == vol >= 0 /\ vinegar > 0 /\ conc > 0

\* C8: a call with a negative titrant volume or a non-positive analyte
\* volume or concentration raises instead of returning a pH.
C8_RejectsInvalidInput ==
    (probe.phase = "out" /\ ~ValidInput(probe.v1, probe.a, probe.c))
        => probe.raised

\* C9: for titrant >= 0, analyte > 0 and the concentration 0.8 the call
\* takes exactly one branch by the sign of remaining_acid; remaining 0
\* returns exactly 7.0; the other two branches take the logarithm of a
\* strictly positive amount, so the result is finite.
C9_BranchesExactAndFinite ==
    (probe.phase = "out" /\ ValidInput(probe.v1, probe.a, probe.c)) =>
        LET remaining == remaining_acid(probe.v1, probe.a, probe.c)
        IN  /\ ~probe.raised
            /\ probe.out1 > NegInf
            /\ probe.out1 < PosInf
            /\ Branch(remaining) = "neutral" => probe.out1 = NeutralPh
            /\ Branch(remaining) = "acid" =>
                   (remaining > 0 /\ probe.out1 = AcidPh(remaining))
            /\ Branch(remaining) = "base" =>
                   (0 - remaining > 0 /\ probe.out1 = BasePh(remaining))

\* calculate_ph(400, 50) returned exactly 7.0
C9_Witness ==
    /\ probe.phase = "out"
    /\ probe.v1 = Ml100(40000)
    /\ probe.a = Ml100(5000)
    /\ probe.c = InitialConcVinegar
    /\ probe.out1 = NeutralPh

\* C10: for a fixed analyte volume, v1 <= v2 implies pH(v1) <= pH(v2).
C10_Monotone ==
    (/\ probe.phase = "out"
     /\ ValidInput(probe.v1, probe.a, probe.c)
     /\ probe.v1 <= probe.v2)
        => probe.out1 <= probe.out2

====
